---- MODULE Spec2Model ----
(***************************************************************************)
(* State-machine model of tybalt/models.py: the Tybalt and cTybalt         *)
(* variational autoencoders (KL warm-up of beta, training callbacks,       *)
(* training history) and the ADAGE denoising autoencoder (graph            *)
(* construction, compilation, training, compress).                         *)
(*                                                                         *)
(* beta and kappa are fixed-point numbers in tenths: One stands for 1.0.   *)
(***************************************************************************)
EXTENDS Integers, Sequences, FiniteSets, TLC

VARIABLES
    script,     \* the model family the running script uses: "vae" or "adage"
    betaCell,   \* the backend variables holding beta: cell id -> value
    models,     \* the Tybalt / cTybalt instances constructed so far
    fit,        \* the full_model.fit call in progress (m = 0: none)
    adage,      \* the Adage instance
    afit,       \* the Adage full_model.fit call in progress
    compressed  \* the table returned by the last Adage.compress call

adageVars == <<script, adage, afit, compressed>>
vars == <<script, betaCell, models, fit, adage, afit, compressed>>

(***************************************************************************)
(* Bounds and fixed-point unit                                             *)
(***************************************************************************)
One == 10
MaxEpochs == 2
NumBatches == 2
MaxRuns == 2

KappaSet == {0, 4, One}
ExplicitBetaSet == {5}
ModelIds == {1, 2}
EpochsSet == {1, MaxEpochs}
\* the beta argument of a constructor call: omitted, or a fresh variable
BetaArgs == {[given |-> FALSE, value |-> 0]}
            \cup {[given |-> TRUE, value |-> v] : v \in ExplicitBetaSet}

Min(a, b) == IF a <= b THEN a ELSE b

Last(s) == s[Len(s)]

(***************************************************************************)
(* Tybalt / cTybalt                                                        *)
(***************************************************************************)

\* The default argument beta=K.variable(0) is evaluated once, when the
\* def statement of __init__ runs: one variable per class, cell 1 for
\* Tybalt.__init__ and cell 2 for cTybalt.__init__.
DefaultBeta(kind) == IF kind = "Tybalt" THEN 1 ELSE 2

\* The variable a constructor call binds to self.beta: the class's default
\* variable, or the variable the caller passes (a fresh one, cell 2 + m).
BetaArgument(kind, m, arg) == IF arg.given THEN 2 + m ELSE DefaultBeta(kind)

Cells == {1, 2} \cup {2 + m : m \in ModelIds}

NoModel == [model_name |-> "none"]

NoFit ==
    [m |-> 0, separate_loss |-> FALSE, cbks |-> <<>>, tracker_data |-> "none",
     epochs |-> 0, epoch |-> 0, batch |-> 0, pc |-> "idle", cb |-> 0,
     loss |-> <<>>, val_loss |-> <<>>, xent_loss |-> <<>>, kl_loss |-> <<>>,
     log |-> <<>>, beta0 |-> 0, betas |-> <<>>]

\* WarmUpCallback.on_epoch_end: beta <- min(1.0, beta + kappa)
WarmUpOnEpochEnd(beta, kappa) == Min(One, beta + kappa)

\* Tybalt.__init__ / cTybalt.__init__
Construct(m, kind, kappa, epochs, arg) ==
    /\ script = "vae"
    /\ fit.m = 0
    /\ models[m] = NoModel
    /\ \A k \in 1..(m - 1) : models[k] # NoModel
    /\ models' = [models EXCEPT ![m] =
            [model_name |-> kind, kappa |-> kappa, epochs |-> epochs,
             beta |-> BetaArgument(kind, m, arg), default_beta |-> ~arg.given,
             stage |-> "constructed", runs |-> 0,
             history_df |-> [loss |-> <<>>, val_loss |-> <<>>]]]
    /\ betaCell' = IF arg.given THEN [betaCell EXCEPT ![2 + m] = arg.value]
                   ELSE betaCell
    /\ UNCHANGED <<fit, adageVars>>

\* VAE.initialize_model: build encoder and decoder layers, compile, connect
InitializeVae(m) ==
    /\ fit.m = 0
    /\ models[m] # NoModel
    /\ models[m].stage = "constructed"
    /\ models' = [models EXCEPT ![m].stage = "initialized"]
    /\ UNCHANGED <<betaCell, fit, adageVars>>

\* cbks of train_vae: the warm-up scheduler, then (optionally) the tracker
MutTrainVaeCallbacksNoWarmUp(separate_loss) ==
    IF separate_loss THEN <<"LossCallback">> ELSE <<>>

MutTrainVaeCallbacksTrackerFirst(separate_loss) ==
    IF separate_loss THEN <<"LossCallback", "WarmUpCallback">>
    ELSE <<"WarmUpCallback">>

TrainVaeCallbacks(separate_loss) ==
    <<"WarmUpCallback">> \o (IF separate_loss THEN <<"LossCallback">> ELSE <<>>)

\* callbacks of train_cvae
TrainCvaeCallbacks == <<"WarmUpCallback">>

\* the data handed to LossCallback(training_data=...)
MutLossCallbackData(train_df, test_df) == test_df

LossCallbackData(train_df, test_df) == train_df

\* epochs=self.epochs handed to fit
MutFitEpochs(model) == model.epochs + 1

FitEpochs(model) == model.epochs

RECURSIVE SumRuns(_)
SumRuns(S) ==
    IF S = {} THEN 0
    ELSE LET m == CHOOSE x \in S : TRUE
         IN (IF models[m] = NoModel THEN 0 ELSE models[m].runs) + SumRuns(S \ {m})

TotalRuns == SumRuns(ModelIds)

StartFit(m, separate_loss, cbks) ==
    /\ fit.m = 0
    /\ models[m] # NoModel
    /\ models[m].stage \in {"initialized", "trained"}
    /\ TotalRuns < MaxRuns
    /\ fit' = [NoFit EXCEPT !.m = m, !.separate_loss = separate_loss,
                            !.cbks = cbks,
                            !.tracker_data =
                                IF separate_loss
                                THEN LossCallbackData("train_df", "test_df")
                                ELSE "none",
                            !.epochs = FitEpochs(models[m]),
                            !.pc = "batch",
                            !.beta0 = betaCell[models[m].beta]]
    /\ models' = [models EXCEPT ![m].runs = @ + 1]
    /\ UNCHANGED <<betaCell, adageVars>>

\* Tybalt.train_vae up to the call of full_model.fit
TrainVae(m, separate_loss) ==
    /\ models[m].model_name = "Tybalt"
    /\ StartFit(m, separate_loss, TrainVaeCallbacks(separate_loss))

\* cTybalt.train_cvae up to the call of full_model.fit
TrainCvae(m) ==
    /\ models[m].model_name = "cTybalt"
    /\ StartFit(m, FALSE, TrainCvaeCallbacks)

Event(ev) == [ev |-> ev, epoch |-> fit.epoch + 1]

\* fit: one gradient update on one batch of the training data
FitBatch ==
    /\ fit.m # 0
    /\ fit.pc = "batch"
    /\ fit' = [fit EXCEPT !.batch = @ + 1,
                          !.pc = IF fit.batch + 1 = NumBatches THEN "validate" ELSE "batch",
                          !.log = Append(@, Event("batch"))]
    /\ UNCHANGED <<betaCell, models, adageVars>>

\* fit: the validation pass over validation_data at the end of the epoch
FitValidate ==
    /\ fit.m # 0
    /\ fit.pc = "validate"
    /\ fit' = [fit EXCEPT !.pc = "callbacks", !.cb = 1,
                          !.log = Append(@, Event("validate"))]
    /\ UNCHANGED <<betaCell, models, adageVars>>

\* fit: on_epoch_end of the next callback of the list, WarmUpCallback
FitWarmUp ==
    /\ fit.m # 0
    /\ fit.pc = "callbacks"
    /\ fit.cb <= Len(fit.cbks)
    /\ fit.cbks[fit.cb] = "WarmUpCallback"
    /\ betaCell' = [betaCell EXCEPT ![models[fit.m].beta] =
                        WarmUpOnEpochEnd(@, models[fit.m].kappa)]
    /\ fit' = [fit EXCEPT !.cb = @ + 1, !.log = Append(@, Event("warmup")),
                          !.betas = Append(@, betaCell'[models[fit.m].beta])]
    /\ UNCHANGED <<models, adageVars>>

\* fit: on_epoch_end of the next callback of the list, LossCallback
FitLossCallback ==
    /\ fit.m # 0
    /\ fit.pc = "callbacks"
    /\ fit.cb <= Len(fit.cbks)
    /\ fit.cbks[fit.cb] = "LossCallback"
    /\ fit' = [fit EXCEPT !.cb = @ + 1,
                          !.xent_loss = Append(@, [data |-> fit.tracker_data,
                                                   epoch |-> fit.epoch + 1]),
                          !.kl_loss = Append(@, [data |-> fit.tracker_data,
                                                 epoch |-> fit.epoch + 1]),
                          !.log = Append(@, Event("tracker"))]
    /\ UNCHANGED <<betaCell, models, adageVars>>

\* fit: the History callback closes the epoch (it is last in the list)
FitHistory ==
    /\ fit.m # 0
    /\ fit.pc = "callbacks"
    /\ fit.cb > Len(fit.cbks)
    /\ fit' = [fit EXCEPT !.loss = Append(@, [data |-> "train_df", epoch |-> fit.epoch + 1]),
                          !.val_loss = Append(@, [data |-> "test_df", epoch |-> fit.epoch + 1]),
                          !.epoch = @ + 1,
                          !.batch = 0,
                          !.cb = 0,
                          !.pc = IF fit.epoch + 1 >= fit.epochs THEN "return" ELSE "batch"]
    /\ UNCHANGED <<betaCell, models, adageVars>>

\* pd.DataFrame(self.hist.history), then assign(recon=...), assign(kl=...)
HistoryDf(f) ==
    IF f.separate_loss
    THEN [loss |-> f.loss, val_loss |-> f.val_loss,
          recon |-> f.xent_loss, kl |-> f.kl_loss]
    ELSE [loss |-> f.loss, val_loss |-> f.val_loss]

\* train_vae / train_cvae after fit returns
FitReturn ==
    /\ fit.m # 0
    /\ fit.pc = "return"
    /\ models' = [models EXCEPT ![fit.m].history_df = HistoryDf(fit),
                                ![fit.m].stage = "trained"]
    /\ fit' = NoFit
    /\ UNCHANGED <<betaCell, adageVars>>

VaeInit ==
    /\ betaCell = [c \in Cells |-> 0]
    /\ models = [m \in ModelIds |-> NoModel]
    /\ fit = NoFit


(***************************************************************************)
(* Adage                                                                   *)
(***************************************************************************)
\* the values a weight takes
WeightValues == {-1, 0, 1}
WeightMod == Cardinality(WeightValues)

\* (original_dim, latent_dim) of the Adage instances
DimsSet == {<<3, 2>>, <<2, 1>>}
LossSet == {"mse", "binary_crossentropy", "bogus"}
OptimizerSet == {"adam", "adadelta", "sgd"}
\* the loss names keras.losses resolves, among LossSet
KerasLosses == {"mse", "binary_crossentropy"}
\* the tables handed to compress: their index, a list of sample identifiers
DfSet == {<<2, 1>>, <<3, 1, 2>>}

\* the weights a layer starts with (a fixed draw of the initializer)
InitWeight(i, j) == ((i + 2 * j) % WeightMod) - 1
InitKernel(rows, cols) == [i \in 1..rows |-> [j \in 1..cols |-> InitWeight(i, j)]]
InitBias(n) == [i \in 1..n |-> 0]

Nudge(v, g) == ((v + 1 + g) % WeightMod) - 1

Transpose(M) ==
    IF Len(M) = 0 THEN <<>>
    ELSE [j \in 1..Len(M[1]) |-> [i \in 1..Len(M) |-> M[i][j]]]

RECURSIVE SumTo(_, _, _)
SumTo(x, col, n) == IF n = 0 THEN 0 ELSE x[n] * col[n] + SumTo(x, col, n - 1)

\* x . M for a row vector x and a matrix M with Len(x) rows
Dot(x, M) ==
    LET T == Transpose(M) IN [j \in 1..Len(T) |-> SumTo(x, T[j], Len(x))]

Act(name, v) == IF name = "relu" THEN (IF v > 0 THEN v ELSE 0) ELSE v

Layer(type, activation, kernel, bias, encoder) ==
    [type |-> type, activation |-> activation, kernel |-> kernel,
     bias |-> bias, encoder |-> encoder]

NoAdage ==
    [stage |-> "none", original_dim |-> 0, latent_dim |-> 0, loss |-> "none",
     optimizer |-> "none", tied_weights |-> FALSE, epochs |-> 0,
     layers |-> <<>>, full_model |-> <<>>, sequential |-> FALSE, encoded |-> 0,
     encoder |-> <<>>, decoder |-> <<>>, compiled |-> FALSE, optim |-> "none",
     init_steps |-> <<>>, error |-> "none", trained |-> FALSE, runs |-> 0,
     history_df |-> [loss |-> <<>>, val_loss |-> <<>>]]

NoAFit ==
    [pc |-> "idle", x |-> "none", y |-> "none", val_x |-> "none", val_y |-> "none",
     epochs |-> 0, epoch |-> 0, batch |-> 0, loss |-> <<>>, val_loss |-> <<>>,
     comparable |-> FALSE]

NoTable ==
    [ok |-> FALSE, input |-> <<>>, index |-> <<>>, columns |-> <<>>, values |-> <<>>,
     model_trained |-> FALSE, model_compiled |-> FALSE]

\* Adage.__init__
AdageConstruct(dims, loss, optimizer, tied_weights, epochs) ==
    /\ script = "adage"
    /\ adage.stage = "none"
    /\ adage' = [NoAdage EXCEPT !.stage = "constructed",
                                !.original_dim = dims[1], !.latent_dim = dims[2],
                                !.loss = loss, !.optimizer = optimizer,
                                !.tied_weights = tied_weights, !.epochs = epochs]
    /\ UNCHANGED <<script, betaCell, models, fit, afit, compressed>>

\* Adage._build_graph: Input, Dropout, Dense, Activation('relu'), Dense(sigmoid)
BuildGraph(a) ==
    [a EXCEPT
        !.layers = <<Layer("Input", "linear", <<>>, <<>>, 0),
                     Layer("Dropout", "linear", <<>>, <<>>, 0),
                     Layer("Dense", "linear",
                           InitKernel(a.original_dim, a.latent_dim),
                           InitBias(a.latent_dim), 0),
                     Layer("Activation", "relu", <<>>, <<>>, 0),
                     Layer("Dense", "sigmoid",
                           InitKernel(a.latent_dim, a.original_dim),
                           InitBias(a.original_dim), 0)>>,
        !.full_model = <<1, 2, 3, 4, 5>>,
        !.sequential = FALSE,
        !.encoded = 3,
        !.encoder = <<>>, !.decoder = <<>>, !.compiled = FALSE, !.trained = FALSE,
        !.init_steps = <<"build_graph">>]

\* output_dim of the TiedWeightsDecoder, the length of the bias it owns
TiedOutputDim(a) == a.original_dim

\* Adage._build_tied_weights_graph: Sequential of Dense(relu), Dropout,
\* TiedWeightsDecoder(encoder=self.encoded)
BuildTiedWeightsGraph(a) ==
    [a EXCEPT
        !.layers = <<Layer("Dense", "relu",
                           InitKernel(a.original_dim, a.latent_dim),
                           InitBias(a.latent_dim), 0),
                     Layer("Dropout", "linear", <<>>, <<>>, 0),
                     Layer("TiedWeightsDecoder", "sigmoid", <<>>,
                           InitBias(TiedOutputDim(a)), 1)>>,
        !.full_model = <<1, 2, 3>>,
        !.sequential = TRUE,
        !.encoded = 1,
        !.encoder = <<>>, !.decoder = <<>>, !.compiled = FALSE, !.trained = FALSE,
        !.init_steps = <<"build_tied_weights_graph">>]

\* decoder_layer = self.full_model.layers[-1]
MutConnectDecoderLayer(full_model) == full_model[1]

ConnectDecoderLayer(full_model) == full_model[Len(full_model)]

\* the layers of full_model up to and including layer l
UpTo(full_model, l) ==
    SubSeq(full_model, 1, CHOOSE k \in 1..Len(full_model) : full_model[k] = l)

\* Adage._connect_layers
ConnectLayers(a) ==
    [a EXCEPT
        !.decoder = <<ConnectDecoderLayer(a.full_model)>>,
        !.encoder = IF a.tied_weights THEN <<a.encoded>>
                    ELSE UpTo(a.full_model, a.encoded),
        !.init_steps = Append(@, "connect_layers")]

\* the if / elif of _compile_adage: the optimizer bound to optim, if any
MutCompileOptimizer(optimizer) ==
    IF optimizer = "adadelta" THEN "Adadelta" ELSE "Adam"

CompileOptimizer(optimizer) ==
    IF optimizer = "adadelta" THEN "Adadelta"
    ELSE IF optimizer = "adam" THEN "Adam"
    ELSE "unbound"

\* Adage._compile_adage
CompileAdage(a) ==
    LET optim == CompileOptimizer(a.optimizer) IN
    IF optim = "unbound"
    THEN [a EXCEPT !.error = "UnboundLocalError",
                   !.init_steps = Append(@, "compile_failed")]
    ELSE IF a.loss \notin KerasLosses
    THEN [a EXCEPT !.error = "ValueError",
                   !.init_steps = Append(@, "compile_failed")]
    ELSE [a EXCEPT !.compiled = TRUE, !.optim = optim, !.error = "none",
                   !.init_steps = Append(@, "compile")]

\* the body of initialize_model: build, then connect, then compile
MutInitializeSteps(a) ==
    ConnectLayers(CompileAdage(
        IF a.tied_weights THEN BuildTiedWeightsGraph(a) ELSE BuildGraph(a)))

InitializeSteps(a) ==
    CompileAdage(ConnectLayers(
        IF a.tied_weights THEN BuildTiedWeightsGraph(a) ELSE BuildGraph(a)))

\* Adage.initialize_model
InitializeModel ==
    /\ script = "adage"
    /\ adage.stage = "constructed"
    /\ afit.pc = "idle"
    /\ adage' = InitializeSteps(adage)
    /\ UNCHANGED <<script, betaCell, models, fit, afit, compressed>>

\* Adage.train_adage up to the call of full_model.fit
TrainAdage(adage_comparable_loss) ==
    /\ script = "adage"
    /\ adage.stage = "constructed"
    /\ afit.pc = "idle"
    /\ adage.runs < MaxRuns
    /\ IF adage.full_model = <<>>
       THEN /\ adage' = [adage EXCEPT !.error = "AttributeError"]
            /\ afit' = afit
       ELSE IF ~adage.compiled
       THEN /\ adage' = [adage EXCEPT !.error = "RuntimeError"]
            /\ afit' = afit
       ELSE /\ adage' = [adage EXCEPT !.error = "none", !.runs = @ + 1]
            /\ afit' = [NoAFit EXCEPT !.pc = "batch",
                                      !.x = "train_df", !.y = "train_df",
                                      !.val_x = "test_df", !.val_y = "test_df",
                                      !.epochs = adage.epochs,
                                      !.comparable = adage_comparable_loss]
    /\ UNCHANGED <<script, betaCell, models, fit, compressed>>

\* one optimizer step on the trainable weights of a layer
UpdateLayer(l, g) ==
    [l EXCEPT !.kernel = [i \in 1..Len(@) |-> [j \in 1..Len(@[i]) |-> Nudge(@[i][j], g)]],
              !.bias = [i \in 1..Len(@) |-> Nudge(@[i], g)]]

\* fit: one gradient update on one batch
AFitBatch(g) ==
    /\ afit.pc = "batch"
    /\ adage' = [adage EXCEPT !.layers =
                    [k \in 1..Len(@) |->
                        IF \E i \in 1..Len(adage.full_model) : adage.full_model[i] = k
                        THEN UpdateLayer(@[k], g) ELSE @[k]]]
    /\ afit' = [afit EXCEPT !.batch = @ + 1,
                            !.pc = IF afit.batch + 1 = NumBatches THEN "validate"
                                   ELSE "batch"]
    /\ UNCHANGED <<script, betaCell, models, fit, compressed>>

\* fit: the validation pass, then the History callback closes the epoch
AFitEpochEnd ==
    /\ afit.pc = "validate"
    /\ afit' = [afit EXCEPT !.loss = Append(@, [epoch |-> afit.epoch + 1, scale |-> 1]),
                            !.val_loss = Append(@, [epoch |-> afit.epoch + 1, scale |-> 1]),
                            !.epoch = @ + 1,
                            !.batch = 0,
                            !.pc = IF afit.epoch + 1 >= afit.epochs THEN "return"
                                   ELSE "batch"]
    /\ UNCHANGED <<script, betaCell, models, fit, adage, compressed>>

Scaled(col, k) == [i \in 1..Len(col) |-> [col[i] EXCEPT !.scale = @ * k]]

\* train_adage after fit returns
AFitReturn ==
    /\ afit.pc = "return"
    /\ adage' = [adage EXCEPT
                    !.trained = TRUE,
                    !.history_df =
                        IF afit.comparable
                        THEN [loss |-> Scaled(afit.loss, adage.original_dim),
                              val_loss |-> Scaled(afit.val_loss, adage.original_dim)]
                        ELSE [loss |-> afit.loss, val_loss |-> afit.val_loss]]
    /\ afit' = NoAFit
    /\ UNCHANGED <<script, betaCell, models, fit, compressed>>

\* the features of the sample with identifier id
Row(id, n) == [k \in 1..n |-> id - k]

\* the weight matrix a layer multiplies its input by
EffectiveKernel(layers, l) ==
    IF layers[l].type = "TiedWeightsDecoder"
    THEN Transpose(layers[layers[l].encoder].kernel)
    ELSE layers[l].kernel

\* one layer applied to x outside training (Dropout passes x through)
Apply(layers, l, x) ==
    IF layers[l].type \in {"Dense", "TiedWeightsDecoder"}
    THEN LET z == Dot(x, EffectiveKernel(layers, l))
         IN [j \in 1..Len(z) |-> Act(layers[l].activation, z[j] + layers[l].bias[j])]
    ELSE IF layers[l].type = "Activation"
    THEN [j \in 1..Len(x) |-> Act(layers[l].activation, x[j])]
    ELSE x

RECURSIVE Predict(_, _, _)
Predict(layers, ids, x) ==
    IF ids = <<>> THEN x
    ELSE Predict(layers, Tail(ids), Apply(layers, Head(ids), x))

\* range(a, b)
PyRange(a, b) == [i \in 1..(b - a) |-> a + i - 1]

\* columns=range(1, self.latent_dim + 1)
MutCompressColumns(latent_dim) == PyRange(0, latent_dim)

CompressColumns(latent_dim) == PyRange(1, latent_dim + 1)

\* index=df.index
CompressIndex(df) == df

\* pd.DataFrame(values, index=index, columns=columns)
PdDataFrame(values, index, columns) ==
    IF /\ Len(values) = Len(index)
       /\ \A i \in 1..Len(values) : Len(values[i]) = Len(columns)
    THEN [NoTable EXCEPT !.ok = TRUE, !.index = index, !.columns = columns,
                         !.values = values]
    ELSE NoTable

\* Adage.compress
Compress(df) ==
    /\ script = "adage"
    /\ adage.stage = "constructed"
    /\ afit.pc = "idle"
    /\ IF adage.encoder = <<>>
       THEN /\ adage' = [adage EXCEPT !.error = "AttributeError"]
            /\ compressed' = compressed
       ELSE LET encoded_df == [i \in 1..Len(df) |->
                                  Predict(adage.layers, adage.encoder,
                                          Row(df[i], adage.original_dim))]
                table == PdDataFrame(encoded_df, CompressIndex(df),
                                     CompressColumns(adage.latent_dim))
            IN /\ compressed' = [table EXCEPT !.input = df,
                                              !.model_trained = adage.trained,
                                              !.model_compiled = adage.compiled]
               /\ adage' = [adage EXCEPT !.error =
                               IF table.ok THEN "none" ELSE "ValueError"]
    /\ UNCHANGED <<script, betaCell, models, fit, afit>>

\* the stages one layer contributes to the training forward pass
LayerStages(l) ==
    IF l.type = "Input" THEN <<"input">>
    ELSE IF l.type = "Dropout" THEN <<"dropout">>
    ELSE IF l.type = "Activation" THEN <<l.activation>>
    ELSE IF l.activation = "linear" THEN <<"dense">>
    ELSE <<"dense", l.activation>>

RECURSIVE StagesOf(_, _)
StagesOf(layers, ids) ==
    IF ids = <<>> THEN <<>>
    ELSE LayerStages(layers[Head(ids)]) \o StagesOf(layers, Tail(ids))

\* the training forward pass of full_model, stage by stage (a Sequential
\* model feeds its input to its first layer)
ForwardStages(a) ==
    (IF a.sequential THEN <<"input">> ELSE <<>>) \o StagesOf(a.layers, a.full_model)

\* the number of weights a layer owns
ParamCount(l) ==
    Len(l.bias) + (IF l.kernel = <<>> THEN 0 ELSE Len(l.kernel) * Len(l.kernel[1]))

AdageInit ==
    /\ adage = NoAdage
    /\ afit = NoAFit
    /\ compressed = NoTable

Init ==
    /\ script \in {"vae", "adage"}
    /\ VaeInit
    /\ AdageInit

Next ==
    \/ \E m \in ModelIds, kind \in {"Tybalt", "cTybalt"}, kappa \in KappaSet,
          epochs \in EpochsSet, arg \in BetaArgs :
            Construct(m, kind, kappa, epochs, arg)
    \/ \E m \in ModelIds : InitializeVae(m)
    \/ \E m \in ModelIds, separate_loss \in BOOLEAN : TrainVae(m, separate_loss)
    \/ \E m \in ModelIds : TrainCvae(m)
    \/ FitBatch
    \/ FitValidate
    \/ FitWarmUp
    \/ FitLossCallback
    \/ FitHistory
    \/ FitReturn
    \/ \E dims \in DimsSet, loss \in LossSet, optimizer \in OptimizerSet,
          tied_weights \in BOOLEAN, epochs \in EpochsSet :
            AdageConstruct(dims, loss, optimizer, tied_weights, epochs)
    \/ InitializeModel
    \/ \E adage_comparable_loss \in BOOLEAN : TrainAdage(adage_comparable_loss)
    \/ \E g \in 1..(WeightMod - 1) : AFitBatch(g)
    \/ AFitEpochEnd
    \/ AFitReturn
    \/ \E df \in DfSet : Compress(df)

Spec == Init /\ [][Next]_vars

(***************************************************************************)
(* Properties                                                              *)
(***************************************************************************)

C2_DefaultBetaRamp ==
    (fit.m # 0 /\ models[fit.m].default_beta) =>
        /\ fit.beta0 = 0
        /\ betaCell[models[fit.m].beta] =
                Min(One, Len(fit.betas) * models[fit.m].kappa)

InEpochOrder(col, E) ==
    /\ Len(col) = E
    /\ \A i \in 1..Len(col) : col[i].epoch = i

\* C6: the history table of a finished run has one row per epoch, in epoch
\* order, with loss and val_loss, and with separate_loss one recon and one
\* kl entry per epoch.
C6_HistoryRows ==
    /\ \A m \in ModelIds :
        (models[m] # NoModel /\ models[m].stage = "trained") =>
            LET h == models[m].history_df
                E == models[m].epochs
            IN /\ InEpochOrder(h.loss, E)
               /\ InEpochOrder(h.val_loss, E)
               /\ "recon" \in DOMAIN h =>
                    /\ InEpochOrder(h.recon, E)
                    /\ InEpochOrder(h.kl, E)
    /\ fit.pc = "return" =>
        (fit.separate_loss <=> "recon" \in DOMAIN HistoryDf(fit))
    /\ adage.runs > 0 /\ afit.pc = "idle" =>
            /\ InEpochOrder(adage.history_df.loss, adage.epochs)
            /\ InEpochOrder(adage.history_df.val_loss, adage.epochs)

C6_Witness ==
    /\ \E m \in ModelIds :
        /\ models[m] # NoModel
        /\ models[m].stage = "trained"
        /\ models[m].epochs = MaxEpochs
        /\ "recon" \in DOMAIN models[m].history_df
        /\ Len(models[m].history_df.kl) = MaxEpochs

Rank(ev) ==
    IF ev = "batch" THEN 1
    ELSE IF ev = "validate" THEN 2
    ELSE IF ev = "warmup" THEN 3
    ELSE 4

CountEvents(L, ev, e) ==
    Cardinality({i \in 1..Len(L) : L[i].ev = ev /\ L[i].epoch = e})

\* C9: at every epoch boundary of train_vae the scheduler runs first and
\* the tracker (only with separate_loss) second, both after the last batch
\* of the finished epoch and before the first batch of the next.
C9_EpochBoundaryOrder ==
    (fit.m # 0 /\ models[fit.m].model_name = "Tybalt") =>
        LET L == fit.log IN
        /\ \A i, j \in 1..Len(L) :
            i < j => /\ L[i].epoch <= L[j].epoch
                     /\ L[i].epoch = L[j].epoch => Rank(L[i].ev) <= Rank(L[j].ev)
        /\ \A i \in 1..Len(L) :
            L[i].ev \in {"warmup", "tracker"} =>
                CountEvents(L, "batch", L[i].epoch) = NumBatches
        /\ \A i \in 1..Len(L) :
            L[i].ev = "tracker" =>
                fit.separate_loss /\ CountEvents(L, "warmup", L[i].epoch) = 1
        /\ \A e \in 1..fit.epoch :
            /\ CountEvents(L, "warmup", e) = 1
            /\ CountEvents(L, "tracker", e) = IF fit.separate_loss THEN 1 ELSE 0

C9_Witness ==
    /\ fit.m # 0
    /\ fit.separate_loss
    /\ fit.epoch = 1
    /\ fit.pc = "batch"
    /\ fit.batch = 1
    /\ CountEvents(fit.log, "tracker", 1) = 1

\* C10 as claimed: the tracker runs on the held-out validation set, the
\* set val_loss is computed on.
C10_TrackerOnValidationData ==
    /\ \A i \in 1..Len(fit.xent_loss) : fit.xent_loss[i].data = "test_df"
    /\ \A i \in 1..Len(fit.kl_loss) : fit.kl_loss[i].data = "test_df"

\* C10 amended: the tracker runs on the training set (train_df), the set
\* the loss column is computed on, not on the validation set of val_loss.
C10_TrackerOnTrainingData ==
    /\ \A i \in 1..Len(fit.xent_loss) :
        /\ fit.xent_loss[i].data = "train_df"
        /\ fit.kl_loss[i].data = "train_df"
    /\ Len(fit.kl_loss) = Len(fit.xent_loss)
    /\ \A i \in 1..Len(fit.val_loss) : fit.val_loss[i].data = "test_df"
    /\ \A i \in 1..Len(fit.loss) : fit.loss[i].data = "train_df"

C10_Witness ==
    /\ fit.m # 0
    /\ fit.separate_loss
    /\ Len(fit.xent_loss) = MaxEpochs
    /\ Len(fit.val_loss) = MaxEpochs

InitOrder(a) ==
    /\ Len(a.init_steps) = 3
    /\ a.init_steps[1] = IF a.tied_weights THEN "build_tied_weights_graph"
                         ELSE "build_graph"
    /\ a.init_steps[2] = "connect_layers"
    /\ a.init_steps[3] \in {"compile", "compile_failed"}

\* C3 as claimed: initialize_model builds, connects, compiles in this
\* order; training needs the compiled model; compress needs the trained one.
C3_StrictLifecycle ==
    /\ adage.init_steps # <<>> => InitOrder(adage)
    /\ (afit.pc # "idle" \/ adage.trained) =>
            adage.compiled /\ adage.encoder # <<>> /\ adage.full_model # <<>>
    /\ compressed.ok => compressed.model_trained

\* C3 amended: initialize_model builds, connects, compiles in this order;
\* training needs the compiled model; compress needs only the connected
\* encoder, neither a compiled nor a trained model.
C3_Lifecycle ==
    /\ adage.init_steps # <<>> => InitOrder(adage)
    /\ adage.init_steps = <<>> =>
            adage.full_model = <<>> /\ adage.encoder = <<>> /\ ~adage.compiled
    /\ (afit.pc # "idle" \/ adage.trained \/ adage.runs > 0) =>
            /\ adage.compiled
            /\ adage.encoder # <<>>
            /\ adage.full_model # <<>>
            /\ Last(adage.init_steps) = "compile"
    /\ compressed.ok =>
            /\ adage.encoder # <<>>
            /\ adage.init_steps[2] = "connect_layers"
    /\ (adage.encoder = <<>> \/ adage.decoder = <<>>) => ~compressed.ok

C3_Witness ==
    /\ adage.trained
    /\ compressed.ok
    /\ compressed.model_trained
    /\ adage.init_steps = <<"build_tied_weights_graph", "connect_layers", "compile">>

C5_CompressShape ==
    /\ compressed.input # <<>> => compressed.ok
    /\ compressed.ok =>
        /\ compressed.index = compressed.input
        /\ Len(compressed.values) = Len(compressed.input)
        /\ Len(compressed.columns) = adage.latent_dim
        /\ \A k \in 1..Len(compressed.columns) : compressed.columns[k] = k
        /\ \A i \in 1..Len(compressed.values) :
            Len(compressed.values[i]) = adage.latent_dim

C5_Witness ==
    /\ compressed.ok
    /\ compressed.input = <<3, 1, 2>>
    /\ adage.latent_dim = 2
    /\ compressed.columns = <<1, 2>>

\* C7: the tied decoder owns original_dim weights (its bias), and the
\* weight matrix used by the decoder of full_model and by the decoder
\* sub-model is the transpose of the encoder's current kernel.
C7_TiedDecoderLive ==
    (adage.tied_weights /\ adage.decoder # <<>>) =>
        LET W == adage.layers[adage.encoded].kernel
            full_dec == Last(adage.full_model)
            sub_dec == adage.decoder[1]
        IN /\ Len(W) = adage.original_dim
           /\ \A i \in 1..Len(W) : Len(W[i]) = adage.latent_dim
           /\ ParamCount(adage.layers[full_dec]) = adage.original_dim
           /\ ParamCount(adage.layers[sub_dec]) = adage.original_dim
           /\ EffectiveKernel(adage.layers, full_dec) = Transpose(W)
           /\ EffectiveKernel(adage.layers, sub_dec) = Transpose(W)

C7_Witness ==
    /\ adage.tied_weights
    /\ adage.trained
    /\ adage.original_dim = 3
    /\ adage.layers[adage.encoded].kernel #
            InitKernel(adage.original_dim, adage.latent_dim)

\* C8: in every Adage variant the training forward pass is input, dropout,
\* dense encoding, relu, sigmoid decoding, and the targets of training and
\* validation are the inputs themselves.
C8_CorruptionBeforeEncoding ==
    /\ adage.full_model # <<>> =>
        ForwardStages(adage) = <<"input", "dropout", "dense", "relu", "dense", "sigmoid">>
    /\ afit.pc # "idle" =>
        /\ afit.x = "train_df" /\ afit.y = afit.x
        /\ afit.val_x = "test_df" /\ afit.val_y = afit.val_x

====
